---- MODULE Spec2Model ----
(***************************************************************************)
(* State-machine model of the xyOps Replicate plugin.                      *)
(*   - the multi-tool variant (src/unnamed/part_000): Spec, SpecFiles      *)
(*   - the image-only variant (src/index.js): SpecImg                      *)
(* One action is one synchronous section of the program: the code that     *)
(* runs between two suspensions on real I/O (stdin, fetch, timer, file).   *)
(* Text is a sequence of one-character strings; the placeholder prefix     *)
(* "files:" is a single token.  Time is counted in ticks of TickMs ms.     *)
(***************************************************************************)
EXTENDS Integers, Sequences, FiniteSets, TLC

VARIABLES
    pc,          \* where the run is suspended
    job,         \* the job descriptor read from standard input
    out,         \* records written to standard output, in order
    didExit,     \* part_000 line 15
    exitPending, \* a terminal write was issued: process.exit(0) is scheduled
    reqs,        \* upstream requests issued so far, in order
    input,       \* main: the API input object as built
    resolvedInput, \* main: resolvedInput, the input after file resolution
    uploadCache, \* context.uploadCache: filename -> URL
    current,     \* waitForCompletion: the prediction state being examined
    now,         \* Date.now(), in ticks
    started,     \* waitForCompletion: started
    lastProgress,\* waitForCompletion: lastProgress (per mille)
    obs,         \* history: what each poll-loop iteration saw (status, elapsed)
    outputUrls,  \* main: outputUrls
    disk,        \* the files of the working directory
    files,       \* main: files downloaded so far
    faults,      \* history: the length of the request log at each failed call or read
    raised       \* history: the length of the output at each exception fail() did not raise

vars == <<pc, job, out, didExit, exitPending, reqs, input, resolvedInput, uploadCache,
          current, now, started, lastProgress, obs, outputUrls, disk, files, faults,
          raised>>

----------------------------------------------------------------------------
(* Bounds *)

MaxNow == 12
MaxPolls == 3
MaxPollsImg == 2

----------------------------------------------------------------------------
(* Text *)

Range(s) == {s[i] : i \in 1..Len(s)}

RECURSIVE TrimLeft(_)
TrimLeft(s) == IF s # <<>> /\ Head(s) = " " THEN TrimLeft(Tail(s)) ELSE s

RECURSIVE TrimRight(_)
TrimRight(s) ==
    IF s # <<>> /\ s[Len(s)] = " " THEN TrimRight(SubSeq(s, 1, Len(s) - 1)) ELSE s

trim(s) == TrimRight(TrimLeft(s))

RECURSIVE StripSlashes(_)
StripSlashes(s) == IF s # <<>> /\ Head(s) = "/" THEN StripSlashes(Tail(s)) ELSE s

\* .replace(/\\/g, "/").replace(/^\.\/+/, "")
normalizePath(value) ==
    LET r == [i \in 1..Len(value) |-> IF value[i] = "\\" THEN "/" ELSE value[i]]
    IN  IF Len(r) >= 2 /\ r[1] = "." /\ r[2] = "/" THEN StripSlashes(Tail(r)) ELSE r

\* the segments of a path or pattern, split at "/"
RECURSIVE SplitPath(_, _, _)
SplitPath(s, cur, acc) ==
    IF s = <<>> THEN Append(acc, cur)
    ELSE IF Head(s) = "/" THEN SplitPath(Tail(s), <<>>, Append(acc, cur))
    ELSE SplitPath(Tail(s), Append(cur, Head(s)), acc)

\* index of the first "]" of s, 0 when there is none
RECURSIVE CloseAt(_, _)
CloseAt(s, i) ==
    IF i > Len(s) THEN 0 ELSE IF s[i] = "]" THEN i ELSE CloseAt(s, i + 1)

\* glob: one pattern segment against one path segment (*, ?, [set])
RECURSIVE GlobSeg(_, _)
GlobSeg(p, s) ==
    IF p = <<>> THEN s = <<>>
    ELSE IF Head(p) = "*"
        THEN GlobSeg(Tail(p), s) \/ (s # <<>> /\ GlobSeg(p, Tail(s)))
    ELSE IF Head(p) = "?"
        THEN s # <<>> /\ GlobSeg(Tail(p), Tail(s))
    ELSE IF Head(p) = "[" /\ CloseAt(p, 2) > 2
        THEN LET c == CloseAt(p, 2)
             IN  /\ s # <<>>
                 /\ Head(s) \in Range(SubSeq(p, 2, c - 1))
                 /\ GlobSeg(SubSeq(p, c + 1, Len(p)), Tail(s))
    ELSE s # <<>> /\ Head(s) = Head(p) /\ GlobSeg(Tail(p), Tail(s))

\* glob: pattern segments against path segments; "**" spans directories
RECURSIVE GlobPath(_, _)
GlobPath(ps, ss) ==
    IF ps = <<>> THEN ss = <<>>
    ELSE IF Head(ps) = <<"*", "*">>
        THEN GlobPath(Tail(ps), ss) \/ (ss # <<>> /\ GlobPath(ps, Tail(ss)))
    ELSE ss # <<>> /\ GlobSeg(Head(ps), Head(ss)) /\ GlobPath(Tail(ps), Tail(ss))

\* the files of the working directory that a glob pattern selects
glob(globPattern, dir) ==
    {f \in dir : GlobPath(SplitPath(globPattern, <<>>, <<>>), SplitPath(f, <<>>, <<>>))}

----------------------------------------------------------------------------
(* JSON values *)

Str(s) == [t |-> "str", v |-> s]
Num(n) == [t |-> "num", v |-> n]
List(xs) == [t |-> "list", v |-> xs]
Obj(kvs) == [t |-> "obj", v |-> kvs]
Null == [t |-> "null", v |-> 0]
\* the URL string that upload number id returned for file f
Url(f, id) == [t |-> "url", v |-> [file |-> f, id |-> id]]

----------------------------------------------------------------------------
(* Reporter (multi-tool variant).  The output state s of a synchronous     *)
(* section is [out, didExit, exitPending, thrown, faults, raised]; thrown is "none", *)
(* "xyExit" (the error fail() throws) or "error" (any other exception).    *)

Progress(p) == [xy |-> 1, progress |-> p]
Failure(code, description) == [xy |-> 1, code |-> code, description |-> description]
Success(data, fs) == [xy |-> 1, code |-> 0, data |-> data, files |-> fs]

writeJson(s, payload, exit) ==
    IF s.didExit THEN s
    ELSE IF exit
        THEN [s EXCEPT !.out = Append(@, payload), !.didExit = TRUE, !.exitPending = TRUE]
    ELSE [s EXCEPT !.out = Append(@, payload)]

\* the failure record is written and the caller goes on
failQuiet(s, code, description) == writeJson(s, Failure(code, description), TRUE)

fail(s, code, description) ==
    [writeJson(s, Failure(code, description), TRUE) EXCEPT !.thrown = "xyExit"]

\* an exception that fail() did not raise
throw(s) == [s EXCEPT !.thrown = "error", !.raised = Append(@, Len(s.out))]

\* the statement after a fail() call raises when fail() returns
orThrow(s) == IF s.thrown = "none" THEN throw(s) ELSE s

\* a handler that reports nothing
mainCatchSilent(s) == s

\* a handler that reports every exception, whatever was written before
mainCatchAlways(s) ==
    IF s.thrown = "none" THEN s
    ELSE [s EXCEPT !.out = Append(@, Failure("exception", <<"message">>)),
                   !.didExit = TRUE, !.exitPending = TRUE]

\* main().catch
mainCatch(s) ==
    IF s.thrown = "none" THEN s
    ELSE IF s.didExit \/ s.thrown = "xyExit" THEN s
    ELSE writeJson(s, Failure("exception", <<"message">>), TRUE)

----------------------------------------------------------------------------
(* Upstream responses.  A response is [kind |-> "neterr"] (fetch rejects)  *)
(* or [kind |-> "http", ok, status, payload].                              *)

NetErr == [kind |-> "neterr"]
Http(ok, status, payload) == [kind |-> "http", ok |-> ok, status |-> status, payload |-> payload]

\* the result of requestJson is [s, payload]
requestJson(s, response) ==
    IF response.kind = "neterr"
    THEN \* without a throw, response.text() of undefined raises
         [s |-> orThrow(fail(s, "network", <<"Failed to reach Replicate API: ", "message">>)),
          payload |-> Null]
    ELSE IF ~response.ok
    THEN [s |-> fail(s, "replicate",
                     <<"Replicate API error (", response.status, "): ", "detail">>),
          payload |-> response.payload]
    ELSE [s |-> s, payload |-> response.payload]

\* what the upload endpoint answers, by outcome
UploadOutcomes == {"url", "id", "nourl", "neterr", "httperr", "readerr"}

UploadResponse(outcome) ==
    CASE outcome = "neterr" -> NetErr
      [] outcome = "httperr" -> Http(FALSE, "500", [url |-> FALSE, id |-> FALSE])
      [] outcome = "id" -> Http(TRUE, "201", [url |-> FALSE, id |-> TRUE])
      [] outcome = "nourl" -> Http(TRUE, "201", [url |-> FALSE, id |-> FALSE])
      [] OTHER -> Http(TRUE, "201", [url |-> TRUE, id |-> TRUE])

NoUrl == Str(<<>>)

resolveUploadedFileUrl(payload, f, k) ==
    IF "url" \notin DOMAIN payload THEN NoUrl
    ELSE IF payload.url THEN Url(f, k)
    ELSE IF payload.id THEN Url(f, k)
    ELSE NoUrl

----------------------------------------------------------------------------
(* File Resolver.  The context ctx is [inputFiles, disk, oracle, cache,    *)
(* reqs, s]: the job input files, the files of the working directory, the  *)
(* outcome of the k-th upload request, context.uploadCache, the requests   *)
(* issued so far and the output state.                                     *)

\* main: the job input files with a filename, each with its normalized path
normalizedFiles(inputFiles) ==
    LET kept == SelectSeq(inputFiles, LAMBDA entry : entry.filename # <<>>)
    IN  [i \in 1..Len(kept) |->
            [filename |-> kept[i].filename, normalized |-> normalizePath(kept[i].filename)]]

\* every file the glob selects, whether or not it is a job input file
matchAnyFile(pattern, inputFiles, dir) ==
    IF pattern = <<>> THEN <<>>
    ELSE
        LET normalizedPattern == normalizePath(pattern)
            patterns == IF "/" \in Range(normalizedPattern)
                        THEN {normalizedPattern}
                        ELSE {normalizedPattern, <<"*", "*", "/">> \o normalizedPattern}
            matches == {normalizePath(result) :
                            result \in UNION {glob(globPattern, dir) : globPattern \in patterns}}
            order == CHOOSE q \in [1..Cardinality(matches) -> matches] : Range(q) = matches
        IN  [i \in 1..Cardinality(matches) |-> [filename |-> order[i], normalized |-> order[i]]]

matchInputFiles(pattern, inputFiles, dir) ==
    IF pattern = <<>> THEN <<>>
    ELSE
        LET normalizedPattern == normalizePath(pattern)
            patterns == IF "/" \in Range(normalizedPattern)
                        THEN {normalizedPattern}
                        ELSE {normalizedPattern, <<"*", "*", "/">> \o normalizedPattern}
            matches == {normalizePath(result) :
                            result \in UNION {glob(globPattern, dir) : globPattern \in patterns}}
        IN  IF matches = {} THEN <<>>
            ELSE SelectSeq(inputFiles, LAMBDA file : file.normalized \in matches)

UploadReq(f) == [kind |-> "upload", file |-> f]

UploadCount(ctx) == Len(SelectSeq(ctx.reqs, LAMBDA r : r.kind = "upload"))

\* the outcome of the next upload
NextOutcome(ctx) ==
    ctx.oracle[IF UploadCount(ctx) < Len(ctx.oracle) THEN UploadCount(ctx) + 1 ELSE Len(ctx.oracle)]

\* the result is [url, ctx]
\* the outcomes that are a failed call or a failed read
UploadFaults == {"neterr", "httperr", "readerr"}

\* history: a failed call is noted with the length n of the request log
Fault(s, failing, n) == IF failing THEN [s EXCEPT !.faults = Append(@, n)] ELSE s

uploadFileToReplicate(filePath, ctx) ==
    LET checked(c1, url) ==
            IF c1.s.thrown # "none" THEN [url |-> NoUrl, ctx |-> c1]
            ELSE IF url.t = "str"
            THEN [url |-> url,
                  ctx |-> [c1 EXCEPT !.s = fail(@, "upload",
                               <<"Replicate file upload did not return a usable URL.">>)]]
            ELSE [url |-> url, ctx |-> c1]
        requested(rj, k) ==
            checked([ctx EXCEPT !.s = rj.s, !.reqs = Append(@, UploadReq(filePath))],
                    resolveUploadedFileUrl(rj.payload, filePath, k))
        read(s1) ==
            IF s1.thrown # "none" THEN [url |-> NoUrl, ctx |-> [ctx EXCEPT !.s = s1]]
            ELSE requested(requestJson(s1, UploadResponse(NextOutcome(ctx))), UploadCount(ctx) + 1)
    IN  read(IF NextOutcome(ctx) = "readerr"
             THEN fail(ctx.s, "upload", <<"Failed to read input file: ", "message">>)
             ELSE ctx.s)

\* a cache that never answers
cacheNever(cache, filename) == FALSE

cacheHas(cache, filename) == filename \in DOMAIN cache

\* every pattern is taken for a wildcard pattern
wantsArrayAlways(pattern) == TRUE

\* only the star counts as a wildcard
wantsArrayStar(pattern) == \E i \in 1..Len(pattern) : pattern[i] = "*"

wantsArray(pattern) == \E i \in 1..Len(pattern) : pattern[i] \in {"*", "?", "["}

\* the loop over matches of resolveFilesInArgs; the result is [urls, ctx]
RECURSIVE uploadMatches(_, _, _, _)
uploadMatches(matches, i, urls, ctx) ==
    LET cached(c1, filename) ==
            IF c1.s.thrown # "none" THEN [urls |-> urls, ctx |-> c1]
            ELSE uploadMatches(matches, i + 1, Append(urls, c1.cache[filename]), c1)
        uploaded(up, filename) ==
            cached(IF up.ctx.s.thrown # "none" THEN up.ctx
                   ELSE [up.ctx EXCEPT !.cache = (filename :> up.url) @@ @], filename)
    IN  IF i > Len(matches) \/ ctx.s.thrown # "none" THEN [urls |-> urls, ctx |-> ctx]
        ELSE IF cacheHas(ctx.cache, matches[i].filename)
        THEN cached(ctx, matches[i].filename)
        ELSE uploaded(uploadFileToReplicate(matches[i].filename,
                          [ctx EXCEPT !.s = Fault(@, NextOutcome(ctx) \in UploadFaults,
                               Len(ctx.reqs) + IF NextOutcome(ctx) = "readerr" THEN 0 ELSE 1)]),
                      matches[i].filename)

startsWithFiles(trimmed) == trimmed # <<>> /\ Head(trimmed) = "files:"

\* the string case of resolveFilesInArgs; the result is [val, ctx]
resolvePlaceholder(value, ctx) ==
    LET shaped(up, pattern) ==
            IF up.ctx.s.thrown # "none" THEN [val |-> Null, ctx |-> up.ctx]
            ELSE IF wantsArray(pattern) THEN [val |-> List(up.urls), ctx |-> up.ctx]
            ELSE IF Len(up.urls) = 1 THEN [val |-> up.urls[1], ctx |-> up.ctx]
            ELSE [val |-> List(up.urls), ctx |-> up.ctx]
        matched(matches, pattern) ==
            IF matches = <<>> THEN [val |-> List(<<>>), ctx |-> ctx]
            ELSE shaped(uploadMatches(matches, 1, <<>>, ctx), pattern)
        prefixed(pattern) ==
            IF pattern = <<>> THEN [val |-> List(<<>>), ctx |-> ctx]
            ELSE matched(matchInputFiles(pattern, ctx.inputFiles, ctx.disk), pattern)
        string(trimmed) ==
            IF ~startsWithFiles(trimmed) THEN [val |-> value, ctx |-> ctx]
            ELSE prefixed(trim(Tail(trimmed)))
    IN  string(trim(value.v))

RECURSIVE resolveFilesInArgs(_, _), resolveItems(_, _, _, _), resolveEntries(_, _, _, _)

\* the result is [val, ctx]; val is meaningless once ctx.s.thrown is set
resolveFilesInArgs(value, ctx) ==
    IF value.t = "str" THEN resolvePlaceholder(value, ctx)
    ELSE IF value.t = "list" THEN resolveItems(value.v, 1, <<>>, ctx)
    ELSE IF value.t = "obj" THEN resolveEntries(value.v, 1, <<>>, ctx)
    ELSE [val |-> value, ctx |-> ctx]

\* the array case: a list result is spread into the rebuilt list
resolveItems(items, i, resolved, ctx) ==
    LET push(next) ==
            IF next.val.t = "list"
            THEN resolveItems(items, i + 1, resolved \o next.val.v, next.ctx)
            ELSE resolveItems(items, i + 1, Append(resolved, next.val), next.ctx)
    IN  IF ctx.s.thrown # "none" THEN [val |-> Null, ctx |-> ctx]
        ELSE IF i > Len(items) THEN [val |-> List(resolved), ctx |-> ctx]
        ELSE push(resolveFilesInArgs(items[i], ctx))

\* the mapping case: entries are [k, x], rebuilt in order
resolveEntries(entries, i, outv, ctx) ==
    LET assign(next) ==
            resolveEntries(entries, i + 1,
                           Append(outv, [k |-> entries[i].k, x |-> next.val]), next.ctx)
    IN  IF ctx.s.thrown # "none" THEN [val |-> Null, ctx |-> ctx]
        ELSE IF i > Len(entries) THEN [val |-> Obj(outv), ctx |-> ctx]
        ELSE assign(resolveFilesInArgs(entries[i].x, ctx))

----------------------------------------------------------------------------
(* Input Builder *)

DEFAULT_TIMEOUT_MS == 300000

Max(a, b) == IF a >= b THEN a ELSE b
Min(a, b) == IF a <= b THEN a ELSE b

\* value is [finite, n]: a finite number n, or anything else (absent, blank, not a number)
parseNumber(value, fallback) == IF ~value.finite THEN fallback ELSE value.n

\* a key the object already holds keeps its value
SetKeyKeep(entries, k, x) ==
    IF \E i \in 1..Len(entries) : entries[i].k = k
    THEN entries
    ELSE Append(entries, [k |-> k, x |-> x])

\* put key k of an object's entries to x: in place when present, else appended
SetKey(entries, k, x) ==
    IF \E i \in 1..Len(entries) : entries[i].k = k
    THEN [i \in 1..Len(entries) |-> IF entries[i].k = k THEN [k |-> k, x |-> x] ELSE entries[i]]
    ELSE Append(entries, [k |-> k, x |-> x])

\* text that is not JSON is taken for no custom JSON at all
cloneArgsLenient(s, value) ==
    IF value.kind = "object" THEN [s |-> s, val |-> value.value]
    ELSE IF value.kind = "nulltext" THEN [s |-> s, val |-> Null]
    ELSE [s |-> s, val |-> Obj(<<>>)]

\* params.args is [kind |-> "absent"], [kind |-> "badtext"] (text that is not
\* JSON), [kind |-> "nulltext"] (the JSON text null) or
\* [kind |-> "object", value |-> an Obj]; the result is [s, val]
cloneArgs(s, value) ==
    IF value.kind = "absent" THEN [s |-> s, val |-> Obj(<<>>)]
    ELSE IF value.kind = "nulltext" THEN [s |-> s, val |-> Null]
    ELSE IF value.kind = "badtext"
    THEN [s |-> fail(s, "params", <<"Failed to parse Custom JSON: ", "message">>),
          val |-> Obj(<<>>)]
    ELSE [s |-> s, val |-> value.value]

\* Math.round; the numbers of the input object are counted in halves
round(h) == 2 * ((h + 1) \div 2)

\* if (Number.isFinite(n)) input[k] = n, or Math.round(n)
SetNumber(entries, k, value, rounded) ==
    IF value.finite
    THEN SetKey(entries, k, Num(IF rounded THEN round(value.n) ELSE value.n))
    ELSE entries

\* lines 82-102: the explicit parameters of the tool mode, put on the custom JSON
typedFields(entries, params) ==
    LET prompt == IF params.prompt THEN SetKey(entries, "prompt", Str(<<"p">>)) ELSE entries
    IN  IF params.tool = "image"
        THEN SetNumber(SetNumber(SetNumber(SetNumber(prompt,
                 "width", params.width, TRUE), "height", params.height, TRUE),
                 "num_outputs", params.num_outputs, TRUE), "seed", params.seed, TRUE)
        ELSE IF params.tool \in {"video", "audio"}
        THEN SetNumber(SetNumber(prompt, "duration", params.duration, FALSE),
                 "seed", params.seed, TRUE)
        ELSE prompt

\* the result is [s, val]
buildInput(s, params) ==
    LET built(c) ==
            IF c.s.thrown # "none" THEN c
            ELSE IF c.val.t = "null"
            THEN \* input.prompt = ... on null raises
                 [s |-> throw(c.s), val |-> c.val]
            ELSE [s |-> c.s, val |-> Obj(typedFields(c.val.v, params))]
    IN  built(cloneArgs(s, params.args))

----------------------------------------------------------------------------
(* Output Fetcher *)

\* every string passes for a URL
looksLikeText(value) == value.t = "str"

\* typeof value === "string" && /^(https?:\/\/|data:)/i.test(value.trim())
looksLikeUrl(value) ==
    /\ value.t = "str"
    /\ trim(value.v) # <<>>
    /\ Head(trim(value.v)) \in {"https://", "http://", "HTTPS://", "data:", "DATA:"}

RECURSIVE collectUrls(_, _), collectItems(_, _, _)

\* the URL-shaped strings of value, in traversal order, after those of urls
collectUrls(value, urls) ==
    IF looksLikeUrl(value) THEN Append(urls, trim(value.v))
    ELSE IF value.t = "list" THEN collectItems(value.v, 1, urls)
    ELSE IF value.t = "obj" THEN collectItems([i \in 1..Len(value.v) |-> value.v[i].x], 1, urls)
    ELSE urls

collectItems(items, i, urls) ==
    IF i > Len(items) THEN urls
    ELSE collectItems(items, i + 1, collectUrls(items[i], urls))

extensionFromContentType(contentType) ==
    CASE contentType = "image/png" -> "png"
      [] contentType = "image/jpeg" -> "jpg"
      [] contentType = "image/jpg" -> "jpg"
      [] contentType = "image/webp" -> "webp"
      [] contentType = "image/gif" -> "gif"
      [] contentType = "video/mp4" -> "mp4"
      [] contentType = "audio/mpeg" -> "mp3"
      [] contentType = "audio/wav" -> "wav"
      [] OTHER -> "bin"

\* a URL's text ends with its suffix token: "" when it has none
extensionFromUrl(url) ==
    IF Len(url) >= 2 /\ url[Len(url) - 1] = "." /\ url[Len(url)] \in {"png", "jpg", "mp4", "wav"}
    THEN url[Len(url)] ELSE "bin"

\* /^data:([^;,]+)?(;base64)?,(.*)$/i : a data URL needs its comma
DataUrlOk(url) == "," \in Range(url)

\* the media type a supported data URL declares
DataUrlType(url) ==
    IF url[2] \in {",", ";base64"} THEN "application/octet-stream" ELSE url[2]

\* the index is used as it counts, from 0
OutputNameZero(prefix, index, extension) == [prefix |-> prefix, n |-> index, ext |-> extension]

OutputName(prefix, index, extension) == [prefix |-> prefix, n |-> index + 1, ext |-> extension]

----------------------------------------------------------------------------
(* The pipeline of the multi-tool variant.  A section works on the record  *)
(* m of the run's state; m.s.thrown tells whether the section raised.      *)

Pred(status, error, output) == [status |-> status, error |-> error, output |-> output, id |-> "p1"]
NoPred == Pred("", "", Null)
NoObs == [seen |-> FALSE, status |-> "", error |-> "", elapsed |-> 0, nreqs |-> 0, timeoutMs |-> 0]

CreateReq(body) == [kind |-> "create", input |-> body]
PollReq == [kind |-> "poll"]
DownloadReq(url) == [kind |-> "download", url |-> url]

\* milliseconds of a number of ticks
Ms(ticks) == ticks * 1500

timeoutMs(params) == Max(1000, parseNumber(params.timeout_ms, DEFAULT_TIMEOUT_MS))

estWaitTimeMs(tool) ==
    IF tool = "video" THEN 120000 ELSE IF tool = "audio" THEN 15000 ELSE 30000

\* the estimate without its base of 0.1
estimateNoBase(elapsedMs, tool) == Min(900, (elapsedMs * 800) \div estWaitTimeMs(tool))

\* Math.min(0.9, 0.1 + (elapsed / estWaitTimeMs) * 0.8), per mille
estimate(elapsedMs, tool) == Min(900, 100 + (elapsedMs * 800) \div estWaitTimeMs(tool))

\* no elapsed time is over the limit
timedOutNever(elapsedMs, limitMs) == FALSE

\* a check against twice the limit
timedOutLate(elapsedMs, limitMs) == elapsedMs > 2 * limitMs

timedOut(elapsedMs, limitMs) == elapsedMs > limitMs

shouldEmit(progress, last) == progress - last >= 50

\* the remote error text is dropped
failedDescriptionFixed(prediction) == <<"Prediction failed.">>

\* current.error || "Prediction failed."
failedDescription(prediction) ==
    IF prediction.error # "" THEN <<prediction.error>> ELSE <<"Prediction failed.">>

\* readJob and main, lines 439-450: the job is read and validated
validate(s, j) ==
    LET prompt(s4) ==
            IF s4.thrown = "none" /\ ~j.prompt
            THEN fail(s4, "params", <<"Required parameter 'prompt' was not provided.">>)
            ELSE s4
        model(s3) ==
            prompt(IF s3.thrown = "none" /\ ~j.model
                   THEN fail(s3, "params", <<"Required parameter 'model' was not provided.">>)
                   ELSE s3)
        apiKey(s2) ==
            model(IF s2.thrown = "none" /\ ~j.apiKey
                  THEN fail(s2, "env", <<"Missing Replicate API token. Set REPLICATE_API_TOKEN.">>)
                  ELSE s2)
        \* job is undefined or null: job.params raises
        params(s1) == apiKey(IF s1.thrown = "none" /\ j.raw # "ok" THEN throw(s1) ELSE s1)
    IN  params(IF j.raw = "empty"
               THEN fail(s, "input", <<"No JSON input received on STDIN.">>)
               ELSE IF j.raw = "invalid"
               THEN fail(s, "input", <<"Failed to parse JSON input: ", "message">>)
               ELSE s)

\* main, lines 439-466: from the end of standard input to the first progress record
mainStart(m, j) ==
    LET built(b) ==
            [m EXCEPT !.s = IF b.s.thrown = "none" THEN writeJson(b.s, Progress(50), FALSE)
                            ELSE b.s,
                      !.input = b.val, !.pc = "resolve"]
        validated(s5) ==
            built(IF s5.thrown = "none" THEN buildInput(s5, j) ELSE [s |-> s5, val |-> Obj(<<>>)])
    IN  validated(validate(m.s, j))

\* main, lines 468-488: file resolution, then the create-prediction request
mainResolve(m, j, dir, oracle) ==
    LET resolved(r) ==
            IF r.ctx.s.thrown # "none"
            THEN [m EXCEPT !.s = r.ctx.s, !.reqs = r.ctx.reqs, !.cache = r.ctx.cache]
            ELSE [m EXCEPT !.s = r.ctx.s, !.cache = r.ctx.cache, !.resolvedInput = r.val,
                           !.reqs = Append(r.ctx.reqs, CreateReq(r.val)), !.pc = "create"]
    IN  resolved(resolveFilesInArgs(m.input,
            [inputFiles |-> normalizedFiles(j.files), disk |-> dir, oracle |-> oracle,
             cache |-> <<>>, reqs |-> m.reqs, s |-> m.s]))

\* the loop over the output URLs ends one short
downloadNextShort(m) ==
    IF Len(m.files) >= Len(m.outputUrls) - 1
    THEN [m EXCEPT !.s = writeJson(@, Success(m.current, m.files), TRUE), !.pc = "done"]
    ELSE [m EXCEPT !.reqs = Append(@, DownloadReq(m.outputUrls[Len(m.files) + 1])),
                   !.pc = "download"]

\* main, lines 506-525: the next download is started, or the success record written
downloadNext(m) ==
    LET start(url) ==
            IF Head(url) = "data:"
            THEN IF DataUrlOk(url) THEN [m EXCEPT !.pc = "download"]
                 ELSE \* without a throw, match[1] of null raises
                      [m EXCEPT !.s = orThrow(fail(@, "download", <<"Unsupported data URL format.">>))]
            ELSE [m EXCEPT !.reqs = Append(@, DownloadReq(url)), !.pc = "download"]
    IN  IF Len(m.files) >= Len(m.outputUrls)
        THEN [m EXCEPT !.s = writeJson(@, Success(m.current, m.files), TRUE), !.pc = "done"]
        ELSE start(m.outputUrls[Len(m.files) + 1])

\* main, lines 499-504: after waitForCompletion returned
afterWait(m) ==
    LET reported(m1) == IF m1.s.thrown # "none" THEN m1 ELSE downloadNext(m1)
        checked(s1, urls) ==
            reported([m EXCEPT !.s = IF s1.thrown = "none" THEN writeJson(s1, Progress(900), FALSE)
                                     ELSE s1,
                               !.outputUrls = urls, !.files = <<>>])
        collected(urls) ==
            checked(IF urls = <<>>
                    THEN fail(m.s, "output", <<"Prediction succeeded but returned no output URLs.">>)
                    ELSE m.s, urls)
    IN  collected(collectUrls(m.current.output, <<>>))

\* every prediction state passes the check
missingStatusNever(prediction) == FALSE

\* !current || !current.status
missingStatus(prediction) == prediction.status = ""

\* the iteration with the timeout checked before the status
waitIterationTimeoutFirst(m, j, elapsed) ==
    LET seen == [seen |-> TRUE, status |-> m.current.status, error |-> m.current.error,
                 elapsed |-> elapsed, nreqs |-> Len(m.reqs), timeoutMs |-> timeoutMs(j)]
        estimated(s3, progress) ==
            IF s3.thrown = "none" /\ shouldEmit(progress, m.lastProgress)
            THEN [m EXCEPT !.s = writeJson(s3, Progress(progress), FALSE),
                           !.lastProgress = progress, !.obs = seen, !.pc = "delay"]
            ELSE [m EXCEPT !.s = s3, !.obs = seen, !.pc = "delay"]
        timed(s2) ==
            estimated(IF s2.thrown = "none" /\ timedOut(elapsed, timeoutMs(j))
                      THEN fail(s2, "timeout", <<"Prediction timed out after ", "s.">>)
                      ELSE s2,
                      estimate(elapsed, j.tool))
        switched(s1) ==
            IF s1.thrown = "none" /\ m.current.status = "succeeded"
            THEN afterWait([m EXCEPT !.s = s1, !.obs = seen])
            ELSE timed(IF s1.thrown # "none" THEN s1
                       ELSE IF m.current.status = "failed"
                       THEN fail(s1, "replicate_failed", failedDescription(m.current))
                       ELSE IF m.current.status = "canceled"
                       THEN fail(s1, "replicate_canceled", <<"Prediction was canceled.">>)
                       ELSE s1)
    IN  switched(IF missingStatus(m.current)
                 THEN fail(m.s, "replicate",
                           <<"Unexpected response while polling prediction status.">>)
                 ELSE IF timedOut(elapsed, timeoutMs(j))
                 THEN fail(m.s, "timeout", <<"Prediction timed out after ", "s.">>)
                 ELSE m.s)

\* waitForCompletion, lines 357-383: one iteration of the loop, up to the delay
waitIteration(m, j, elapsed) ==
    LET seen == [seen |-> TRUE, status |-> m.current.status, error |-> m.current.error,
                 elapsed |-> elapsed, nreqs |-> Len(m.reqs), timeoutMs |-> timeoutMs(j)]
        estimated(s3, progress) ==
            IF s3.thrown = "none" /\ shouldEmit(progress, m.lastProgress)
            THEN [m EXCEPT !.s = writeJson(s3, Progress(progress), FALSE),
                           !.lastProgress = progress, !.obs = seen, !.pc = "delay"]
            ELSE [m EXCEPT !.s = s3, !.obs = seen, !.pc = "delay"]
        timed(s2) ==
            estimated(IF s2.thrown = "none" /\ timedOut(elapsed, timeoutMs(j))
                      THEN fail(s2, "timeout", <<"Prediction timed out after ", "s.">>)
                      ELSE s2,
                      estimate(elapsed, j.tool))
        switched(s1) ==
            IF s1.thrown = "none" /\ m.current.status = "succeeded"
            THEN afterWait([m EXCEPT !.s = s1, !.obs = seen])
            ELSE timed(IF s1.thrown # "none" THEN s1
                       ELSE IF m.current.status = "failed"
                       THEN fail(s1, "replicate_failed", failedDescription(m.current))
                       ELSE IF m.current.status = "canceled"
                       THEN fail(s1, "replicate_canceled", <<"Prediction was canceled.">>)
                       ELSE s1)
    IN  switched(IF missingStatus(m.current)
                 THEN fail(m.s, "replicate",
                           <<"Unexpected response while polling prediction status.">>)
                 ELSE m.s)

\* main, lines 484-492, and the first iteration of waitForCompletion
mainCreated(m, j, response, t) ==
    LET reported(s1, payload) ==
            IF s1.thrown # "none" THEN [m EXCEPT !.s = s1]
            ELSE waitIteration([m EXCEPT !.s = s1, !.current = payload, !.started = t,
                                         !.lastProgress = 0], j, 0)
        answered(rj) ==
            reported(IF rj.s.thrown = "none" THEN writeJson(rj.s, Progress(100), FALSE) ELSE rj.s,
                     rj.payload)
    IN  answered(requestJson(m.s, response))

\* waitForCompletion, lines 385-386: after the delay, the poll request
waitPoll(m) == [m EXCEPT !.reqs = Append(@, PollReq), !.pc = "poll"]

\* waitForCompletion, line 386 and the next iteration
waitPolled(m, j, response, t) ==
    LET answered(rj) ==
            IF rj.s.thrown # "none" THEN [m EXCEPT !.s = rj.s]
            ELSE waitIteration([m EXCEPT !.s = rj.s, !.current = rj.payload], j, Ms(t - m.started))
    IN  answered(requestJson(m.s, response))

\* downloadFile / downloadDataUrl, from the response to the written file
downloadFile(m, outcome) ==
    LET url == m.outputUrls[Len(m.files) + 1]
        extension == IF extensionFromContentType(outcome.contentType) # "bin"
                     THEN extensionFromContentType(outcome.contentType)
                     ELSE extensionFromUrl(url)
        fetched(s1) ==
            IF s1.thrown # "none" THEN [m EXCEPT !.s = s1]
            ELSE IF outcome.kind = "writeerr" THEN [m EXCEPT !.s = throw(s1)]
            ELSE [m EXCEPT !.s = s1,
                           !.files = Append(@, OutputName(m.current.id, Len(m.files), extension))]
    IN  IF Head(url) = "data:"
        THEN IF outcome.kind = "writeerr" THEN [m EXCEPT !.s = throw(@)]
             ELSE [m EXCEPT !.files = Append(@,
                       OutputName(m.current.id, Len(m.files),
                                  extensionFromContentType(DataUrlType(url))))]
        ELSE fetched(IF outcome.kind = "neterr"
                     THEN \* without a throw, response.ok of undefined raises
                          orThrow(fail(m.s, "download", <<"Failed to download output: ", "message">>))
                     ELSE IF outcome.kind = "notok"
                     THEN fail(m.s, "download", <<"Failed to download output (", "status", ").">>)
                     ELSE m.s)

\* main, line 509-510 and on: a download completed
mainDownloaded(m, outcome) ==
    LET downloaded(m1) == IF m1.s.thrown # "none" THEN m1 ELSE downloadNext(m1)
    IN  downloaded(downloadFile(m, outcome))

\* the end of a section: an exception reaches main().catch and main is over
settle(m) ==
    IF m.s.thrown = "none" THEN m
    ELSE [m EXCEPT !.s = [mainCatch(m.s) EXCEPT !.thrown = "none"], !.pc = "done"]

----------------------------------------------------------------------------
(* The image-only variant (src/index.js): no exit guard, fail() returns,   *)
(* and the main function has no catch: a raised exception ends the run.    *)

writeJsonImg(s, payload, exit) ==
    IF exit THEN [s EXCEPT !.out = Append(@, payload), !.exitPending = TRUE]
    ELSE [s EXCEPT !.out = Append(@, payload)]

failImg(s, code, description) == writeJsonImg(s, Failure(code, description), TRUE)

\* the result of requestJson is [s, payload]
requestJsonImg(s, response) ==
    IF response.kind = "neterr"
    THEN \* response is undefined: response.text() raises
         [s |-> throw(failImg(s, "network", <<"Failed to reach Replicate API: ", "message">>)),
          payload |-> Null]
    ELSE IF ~response.ok
    THEN [s |-> failImg(s, "replicate",
                        <<"Replicate API error (", response.status, "): ", "detail">>),
          payload |-> response.payload]
    ELSE [s |-> s, payload |-> response.payload]

extensionFromContentTypeImg(contentType) ==
    CASE contentType = "image/png" -> "png"
      [] contentType = "image/jpeg" -> "jpg"
      [] contentType = "image/jpg" -> "jpg"
      [] contentType = "image/webp" -> "webp"
      [] contentType = "image/gif" -> "gif"
      [] OTHER -> "bin"

\* Math.min(0.9, 0.1 + (elapsed / 30_000) * 0.8), per mille
estimateImg(elapsedMs) == Min(900, 100 + (elapsedMs * 800) \div 30000)

\* main, lines 230-262: from the end of standard input to the create request
imgStart(m, j) ==
    LET issued(s6) ==
            IF s6.thrown # "none" THEN [m EXCEPT !.s = s6]
            ELSE [m EXCEPT !.s = writeJsonImg(s6, Progress(50), FALSE),
                           !.input = Obj(<<[k |-> "prompt", x |-> Str(<<"p">>)]>>),
                           !.reqs = Append(@, CreateReq(Obj(<<[k |-> "prompt", x |-> Str(<<"p">>)]>>))),
                           !.pc = "create"]
        prompt(s4) ==
            issued(IF s4.thrown = "none" /\ ~j.prompt
                   THEN failImg(s4, "params", <<"Required parameter 'prompt' was not provided.">>)
                   ELSE s4)
        model(s3) ==
            prompt(IF s3.thrown = "none" /\ ~j.model
                   THEN failImg(s3, "params", <<"Required parameter 'model' was not provided.">>)
                   ELSE s3)
        apiKey(s2) ==
            model(IF s2.thrown = "none" /\ ~j.apiKey
                  THEN failImg(s2, "env", <<"Missing Replicate API token. Set REPLICATE_API_TOKEN.">>)
                  ELSE s2)
        \* readJob returned undefined or null: job.params raises
        params(s1) == apiKey(IF j.raw # "ok" THEN throw(s1) ELSE s1)
    IN  params(IF j.raw = "empty"
               THEN failImg(m.s, "input", <<"No JSON input received on STDIN.">>)
               ELSE IF j.raw = "invalid"
               THEN failImg(m.s, "input", <<"Failed to parse JSON input: ", "message">>)
               ELSE m.s)

\* main, lines 279-298: the next download is started, or the success record written
imgDownloadNext(m) ==
    LET start(url) ==
            IF Head(url) = "data:"
            THEN IF DataUrlOk(url) THEN [m EXCEPT !.pc = "download"]
                 ELSE \* match is null: match[1] raises
                      [m EXCEPT !.s = throw(failImg(@, "download", <<"Unsupported data URL format.">>))]
            ELSE [m EXCEPT !.reqs = Append(@, DownloadReq(url)), !.pc = "download"]
    IN  IF Len(m.files) >= Len(m.outputUrls)
        THEN [m EXCEPT !.s = writeJsonImg(@, Success(m.current, m.files), TRUE), !.pc = "done"]
        ELSE start(m.outputUrls[Len(m.files) + 1])

\* main, lines 272-277: after waitForCompletion returned
imgAfterWait(m) ==
    LET collected(urls) ==
            imgDownloadNext(
                [m EXCEPT !.s = writeJsonImg(
                                    IF urls = <<>>
                                    THEN failImg(@, "output",
                                             <<"Prediction succeeded but returned no output URLs.">>)
                                    ELSE @,
                                    Progress(900), FALSE),
                          !.outputUrls = urls, !.files = <<>>])
    IN  collected(collectUrls(m.current.output, <<>>))

\* waitForCompletion, lines 148-174: one iteration of the loop, up to the delay
imgIteration(m, j, elapsed) ==
    LET seen == [seen |-> TRUE, status |-> m.current.status, error |-> m.current.error,
                 elapsed |-> elapsed, nreqs |-> Len(m.reqs), timeoutMs |-> timeoutMs(j)]
        estimated(s3, progress) ==
            IF shouldEmit(progress, m.lastProgress)
            THEN [m EXCEPT !.s = writeJsonImg(s3, Progress(progress), FALSE),
                           !.lastProgress = progress, !.obs = seen, !.pc = "delay"]
            ELSE [m EXCEPT !.s = s3, !.obs = seen, !.pc = "delay"]
        timed(s2) ==
            estimated(IF timedOut(elapsed, timeoutMs(j))
                      THEN failImg(s2, "timeout", <<"Prediction timed out after ", "s.">>)
                      ELSE s2,
                      estimateImg(elapsed))
        switched(s1) ==
            IF m.current.status = "succeeded"
            THEN imgAfterWait([m EXCEPT !.s = s1, !.obs = seen])
            ELSE timed(IF m.current.status = "failed"
                       THEN failImg(s1, "replicate_failed", failedDescription(m.current))
                       ELSE IF m.current.status = "canceled"
                       THEN failImg(s1, "replicate_canceled", <<"Prediction was canceled.">>)
                       ELSE s1)
    IN  switched(IF m.current.status = ""
                 THEN failImg(m.s, "replicate",
                              <<"Unexpected response while polling prediction status.">>)
                 ELSE m.s)

\* main, lines 258-266, and the first iteration of waitForCompletion
imgCreated(m, j, response, t) ==
    LET answered(rj) ==
            IF rj.s.thrown # "none" THEN [m EXCEPT !.s = rj.s]
            ELSE imgIteration([m EXCEPT !.s = writeJsonImg(rj.s, Progress(100), FALSE),
                                        !.current = rj.payload, !.started = t,
                                        !.lastProgress = 0], j, 0)
    IN  answered(requestJsonImg(m.s, response))

\* waitForCompletion, line 177 and the next iteration
imgPolled(m, j, response, t) ==
    LET answered(rj) ==
            IF rj.s.thrown # "none" THEN [m EXCEPT !.s = rj.s]
            ELSE imgIteration([m EXCEPT !.s = rj.s, !.current = rj.payload], j, Ms(t - m.started))
    IN  answered(requestJsonImg(m.s, response))

\* downloadFile / downloadDataUrl, from the response to the written file
imgDownloadFile(m, outcome) ==
    LET url == m.outputUrls[Len(m.files) + 1]
        extension == IF extensionFromContentTypeImg(outcome.contentType) # "bin"
                     THEN extensionFromContentTypeImg(outcome.contentType)
                     ELSE extensionFromUrl(url)
        fetched(s1) ==
            IF s1.thrown # "none" THEN [m EXCEPT !.s = s1]
            ELSE IF outcome.kind = "writeerr" THEN [m EXCEPT !.s = throw(s1)]
            ELSE [m EXCEPT !.s = s1,
                           !.files = Append(@, OutputName(m.current.id, Len(m.files), extension))]
    IN  IF Head(url) = "data:"
        THEN IF outcome.kind = "writeerr" THEN [m EXCEPT !.s = throw(@)]
             ELSE [m EXCEPT !.files = Append(@,
                       OutputName(m.current.id, Len(m.files),
                                  extensionFromContentTypeImg(DataUrlType(url))))]
        ELSE fetched(IF outcome.kind = "neterr"
                     THEN \* response is undefined: response.ok raises
                          throw(failImg(m.s, "download", <<"Failed to download output: ", "message">>))
                     ELSE IF outcome.kind = "notok"
                     THEN failImg(m.s, "download", <<"Failed to download output (", "status", ").">>)
                     ELSE m.s)

\* main, lines 282-283 and on: a download completed
imgDownloaded(m, outcome) ==
    LET downloaded(m1) == IF m1.s.thrown # "none" THEN m1 ELSE imgDownloadNext(m1)
    IN  downloaded(imgDownloadFile(m, outcome))

\* the end of a section: an exception rejects the main function's promise,
\* which nothing handles, and the process ends
imgSettle(m) ==
    IF m.s.thrown = "none" THEN m
    ELSE [m EXCEPT !.s = [@ EXCEPT !.thrown = "none"], !.pc = "exited"]

----------------------------------------------------------------------------
(* The state machine *)

View ==
    [s |-> [out |-> out, didExit |-> didExit, exitPending |-> exitPending, thrown |-> "none",
            faults |-> faults, raised |-> raised],
     pc |-> pc, reqs |-> reqs, input |-> input, resolvedInput |-> resolvedInput,
     cache |-> uploadCache, current |-> current, started |-> started,
     lastProgress |-> lastProgress, obs |-> obs, outputUrls |-> outputUrls, files |-> files]

Commit(m) ==
    /\ pc' = m.pc
    /\ out' = m.s.out
    /\ didExit' = m.s.didExit
    /\ exitPending' = m.s.exitPending
    /\ reqs' = m.reqs
    /\ input' = m.input
    /\ resolvedInput' = m.resolvedInput
    /\ uploadCache' = m.cache
    /\ current' = m.current
    /\ started' = m.started
    /\ lastProgress' = m.lastProgress
    /\ obs' = m.obs
    /\ outputUrls' = m.outputUrls
    /\ files' = m.files
    /\ faults' = m.s.faults
    /\ raised' = m.s.raised

\* a network error, or an HTTP status that is not OK
FailedResponse(response) == response.kind = "neterr" \/ ~response.ok

\* the run with the failure of the answered call noted
Answered(m, failing) == [m EXCEPT !.s = Fault(@, failing, Len(m.reqs))]

\* input files and working directories
Fa == <<"a", ".", "p">>
Fb == <<"b", ".", "p">>
Fc == <<"c", ".", "j">>
Fda == <<"d", "/", "a", ".", "p">>
FaDot == <<".", "/", "a", ".", "p">>

Placeholder(pattern) == Str(<<"files:">> \o pattern)

Given(n) == [finite |-> TRUE, n |-> n]
NotGiven == [finite |-> FALSE, n |-> 0]

BaseJob ==
    [raw |-> "ok", apiKey |-> TRUE, model |-> TRUE, prompt |-> TRUE, tool |-> "image",
     timeout_ms |-> Given(3000), args |-> [kind |-> "absent"], files |-> <<>>,
     width |-> NotGiven, height |-> NotGiven, num_outputs |-> NotGiven,
     seed |-> NotGiven, duration |-> NotGiven]

ArgsOverlap ==
    Obj(<<[k |-> "image", x |-> Placeholder(Fa)],
          [k |-> "refs", x |-> Placeholder(<<"*", ".", "p">>)]>>)
ArgsList ==
    Obj(<<[k |-> "refs", x |-> List(<<Placeholder(<<"?", ".", "p">>), Placeholder(Fa), Str(<<"x">>)>>)],
          [k |-> "n", x |-> Num(1)]>>)
ArgsMissing ==
    Obj(<<[k |-> "image", x |-> Placeholder(<<"z", ".", "p">>)],
          [k |-> "mask", x |-> Placeholder(Fb)]>>)

InvalidJobs ==
    {[BaseJob EXCEPT !.raw = r] : r \in {"empty", "invalid", "null"}}
    \cup {[BaseJob EXCEPT !.apiKey = a, !.model = b, !.prompt = c] : a, b, c \in BOOLEAN}
    \cup {[BaseJob EXCEPT !.args = [kind |-> k], !.tool = tool, !.apiKey = a] :
            k \in {"badtext", "nulltext"}, tool \in {"image", "video"}, a \in BOOLEAN}
TimedJobs ==
    {[BaseJob EXCEPT !.tool = tool, !.timeout_ms = tmo] :
        tool \in {"image", "video", "audio"}, tmo \in {NotGiven, Given(0), Given(3000), Given(7500)}}
FileJobs ==
    {[BaseJob EXCEPT !.args = [kind |-> "object", value |-> a], !.files = fs] :
        a \in {ArgsOverlap, ArgsList, ArgsMissing},
        fs \in {<<[filename |-> Fa], [filename |-> Fb]>>, <<[filename |-> Fa], [filename |-> <<>>]>>}}
Jobs == InvalidJobs \cup TimedJobs \cup FileJobs

Disks == {{Fa, Fb, Fc}, {Fa}}

MaxUploads == 2
Oracles == [1..MaxUploads -> UploadOutcomes]

OutNone == List(<<>>)
OutOne == List(<<Str(<<"https://", "h", "/", "a", ".", "png">>)>>)
OutTwo == List(<<Str(<<"https://", "h", "/", "a">>), Str(<<"data:", "image/png", ";base64", ",", "x">>)>>)
OutBadData == Str(<<"data:", "x">>)
OutNested ==
    Obj(<<[k |-> "a", x |-> List(<<Str(<<" ", "https://", "h", "/", "b", ".", "jpg">>), Str(<<"x">>)>>)],
          [k |-> "b", x |-> Str(<<"DATA:", "image/png", ",", "x">>)]>>)
OutNoUrl == Obj(<<[k |-> "a", x |-> List(<<Str(<<"x">>), Num(1)>>)]>>)

Preds ==
    {Pred("", "", Null), Pred("starting", "", Null), Pred("processing", "", Null),
     Pred("failed", "", Null), Pred("failed", "OOM", Null),
     Pred("canceled", "", Null), Pred("canceled", "OOM", Null)}
    \cup {Pred("succeeded", "", o) : o \in {OutNone, OutOne, OutTwo, OutBadData, OutNested, OutNoUrl}}

PredResponses ==
    {NetErr, Http(FALSE, "500", NoPred)} \cup {Http(TRUE, "200", p) : p \in Preds}

DownloadOutcomes ==
    {[kind |-> k, contentType |-> c] : k \in {"ok"}, c \in {"image/png", ""}}
    \cup {[kind |-> k, contentType |-> ""] : k \in {"neterr", "notok", "writeerr"}}

Dts == {0, 1, 6}

Polls == Len(SelectSeq(reqs, LAMBDA r : r.kind = "poll"))

Blank ==
    /\ out = <<>>
    /\ didExit = FALSE
    /\ exitPending = FALSE
    /\ reqs = <<>>
    /\ input = Obj(<<>>)
    /\ resolvedInput = Obj(<<>>)
    /\ uploadCache = <<>>
    /\ current = NoPred
    /\ now = 0
    /\ started = 0
    /\ lastProgress = 0
    /\ obs = NoObs
    /\ outputUrls = <<>>
    /\ files = <<>>
    /\ faults = <<>>
    /\ raised = <<>>

Init ==
    /\ pc = "stdin"
    /\ job \in Jobs
    /\ disk \in IF job.files = <<>> THEN {{Fa, Fb, Fc}} ELSE Disks
    /\ Blank

\* standard input ended
ReadJob ==
    /\ pc = "stdin"
    /\ Commit(settle(mainStart(View, job)))
    /\ UNCHANGED <<job, disk, now>>

\* the placeholders are resolved; the create-prediction request is issued
ResolveFiles ==
    /\ pc = "resolve"
    /\ \E oracle \in Oracles : Commit(settle(mainResolve(View, job, disk, oracle)))
    /\ UNCHANGED <<job, disk, now>>

\* the create-prediction call answered
CreateResponse ==
    /\ pc = "create"
    /\ \E response \in PredResponses : Commit(settle(mainCreated(Answered(View, FailedResponse(response)), job, response, now)))
    /\ UNCHANGED <<job, disk, now>>

\* the poll delay elapsed
DelayDone ==
    /\ pc = "delay"
    /\ Polls < MaxPolls
    /\ \E dt \in Dts : now + dt <= MaxNow /\ now' = now + dt
    /\ Commit(waitPoll(View))
    /\ UNCHANGED <<job, disk>>

\* the poll call answered
PollResponse ==
    /\ pc = "poll"
    /\ \E response \in PredResponses : Commit(settle(waitPolled(Answered(View, FailedResponse(response)), job, response, now)))
    /\ UNCHANGED <<job, disk, now>>

\* a download (or the write of a decoded data URL) completed
DownloadDone ==
    /\ pc = "download"
    /\ \E outcome \in DownloadOutcomes :
          Commit(settle(mainDownloaded(
              Answered(View, /\ outcome.kind \in {"neterr", "notok"}
                             /\ Head(outputUrls[Len(files) + 1]) # "data:"), outcome)))
    /\ UNCHANGED <<job, disk, now>>

\* the callback of the terminal write: process.exit(0)
ProcessExit ==
    /\ exitPending
    /\ pc # "exited"
    /\ pc' = "exited"
    /\ UNCHANGED <<job, out, didExit, exitPending, reqs, input, resolvedInput, uploadCache,
                   current, now, started, lastProgress, obs, outputUrls, disk, files,
                   faults, raised>>

Next ==
    \/ ReadJob
    \/ ResolveFiles
    \/ CreateResponse
    \/ DelayDone
    \/ PollResponse
    \/ DownloadDone
    \/ ProcessExit

Spec == Init /\ [][Next]_vars

----------------------------------------------------------------------------
(* The File Resolver on its own: the run is taken at the point where main  *)
(* calls resolveFilesInArgs, over a wide set of input objects.             *)

FPatterns ==
    {Fa, Fc, Fda, FaDot, <<"z", ".", "p">>, <<>>, <<" ">>,
     <<"*", ".", "p">>, <<"?", ".", "p">>, <<"[", "a", "b", "]", ".", "p">>,
     <<"d", "/", "*">>, <<"d", "\\", "a", ".", "p">>}

FValues ==
    {Placeholder(q) : q \in FPatterns}
    \cup {Str(<<" ", "files:", " ">> \o Fa \o <<" ">>), Str(<<"x">>), Num(1),
          List(<<Placeholder(<<"*", ".", "p">>), Placeholder(Fa)>>),
          List(<<Placeholder(<<"z", ".", "p">>), Str(<<"x">>)>>),
          List(<<List(<<Num(1), Num(2)>>), List(<<>>), Str(<<"x">>)>>),
          Obj(<<[k |-> "a", x |-> List(<<Num(1), Str(<<"x">>)>>)], [k |-> "b", x |-> Null]>>)}

FArgs ==
    {Obj(<<[k |-> "image", x |-> v]>>) : v \in FValues}
    \cup {Obj(<<[k |-> "image", x |-> Placeholder(q)], [k |-> "refs", x |-> Placeholder(r)]>>) :
            q \in FPatterns, r \in {Fa, Fda, <<"*", ".", "p">>}}

FFiles ==
    {<<>>, <<[filename |-> Fc]>>,
     <<[filename |-> Fa], [filename |-> Fb]>>, <<[filename |-> Fa], [filename |-> Fda]>>,
     <<[filename |-> Fa], [filename |-> Fa]>>, <<[filename |-> FaDot], [filename |-> Fa]>>}

FDisks == {{Fa, Fb, Fc, Fda}, {Fa}, {}}

InitFiles ==
    /\ pc = "resolve"
    /\ job \in {[BaseJob EXCEPT !.args = [kind |-> "object", value |-> a], !.files = fs] :
                    a \in FArgs, fs \in FFiles}
    /\ disk \in FDisks
    /\ out = <<Progress(50)>>
    /\ input = Obj(SetKey(job.args.value.v, "prompt", Str(<<"p">>)))
    /\ didExit = FALSE
    /\ exitPending = FALSE
    /\ reqs = <<>>
    /\ resolvedInput = Obj(<<>>)
    /\ uploadCache = <<>>
    /\ current = NoPred
    /\ now = 0
    /\ started = 0
    /\ lastProgress = 0
    /\ obs = NoObs
    /\ outputUrls = <<>>
    /\ files = <<>>
    /\ faults = <<>>
    /\ raised = <<>>

NextFiles == ResolveFiles \/ ProcessExit

SpecFiles == InitFiles /\ [][NextFiles]_vars

----------------------------------------------------------------------------
(* The Input Builder on its own: the run from the end of standard input to *)
(* the first progress record, over explicit parameters and custom JSON.    *)

TypedKeys == {"width", "height", "num_outputs", "seed", "duration"}

\* the value of an explicit numeric parameter
Typed(params, k) ==
    CASE k = "width" -> params.width
      [] k = "height" -> params.height
      [] k = "num_outputs" -> params.num_outputs
      [] k = "seed" -> params.seed
      [] k = "duration" -> params.duration

\* custom JSON objects: the same keys in two orders, numbers in halves
InputArgs ==
    {Obj(<<>>),
     Obj(<<[k |-> "prompt", x |-> Str(<<"q">>)], [k |-> "width", x |-> Num(6)],
           [k |-> "seed", x |-> Num(8)], [k |-> "steps", x |-> Num(2)]>>),
     Obj(<<[k |-> "steps", x |-> Num(2)], [k |-> "seed", x |-> Num(8)],
           [k |-> "width", x |-> Num(6)], [k |-> "prompt", x |-> Str(<<"q">>)]>>),
     Obj(<<[k |-> "duration", x |-> Num(10)], [k |-> "num_outputs", x |-> Num(6)],
           [k |-> "height", x |-> Str(<<"x">>)]>>),
     Obj(<<[k |-> "height", x |-> Str(<<"x">>)], [k |-> "num_outputs", x |-> Num(6)],
           [k |-> "duration", x |-> Num(10)]>>)}

InputNumbers == {NotGiven, Given(4), Given(3)}

InputJobs ==
    {[BaseJob EXCEPT !.tool = tool, !.args = [kind |-> "object", value |-> a],
                     !.width = w, !.height = w, !.num_outputs = n, !.seed = sd, !.duration = d] :
        tool \in {"image", "video", "audio"}, a \in InputArgs,
        w \in InputNumbers, n \in {NotGiven, Given(4)}, sd \in InputNumbers,
        d \in InputNumbers}

InitInput ==
    /\ pc = "stdin"
    /\ job \in InputJobs
    /\ disk = {}
    /\ Blank

NextInput == ReadJob

SpecInput == InitInput /\ [][NextInput]_vars

----------------------------------------------------------------------------
(* The run under its scheduling assumptions: every call issued is answered, *)
(* every delay ends with the clock advanced, and the terminal write's       *)
(* callback runs.  The timeout is a given one, within the clock's range.    *)

LiveJobs == {j \in Jobs : j.timeout_ms.finite}

LiveDts == {1, 6}

InitLive ==
    /\ pc = "stdin"
    /\ job \in LiveJobs
    /\ disk \in IF job.files = <<>> THEN {{Fa, Fb, Fc}} ELSE Disks
    /\ Blank

\* the poll delay elapsed, the clock having advanced
DelayElapsed ==
    /\ pc = "delay"
    /\ \E dt \in LiveDts : now + dt <= MaxNow /\ now' = now + dt
    /\ Commit(waitPoll(View))
    /\ UNCHANGED <<job, disk>>

\* the steps other than the file resolution
AnsweredStep ==
    \/ ReadJob
    \/ CreateResponse
    \/ DelayElapsed
    \/ PollResponse
    \/ DownloadDone
    \/ ProcessExit

NextLive == AnsweredStep \/ ResolveFiles

\* The run is sequential: at most one step is pending at a time, so fairness of
\* the pending step is fairness of each.  ResolveFiles is enabled exactly when
\* pc = "resolve" and leaves that point, so its weak fairness is stated as
\* the run not staying at that point for ever.
SpecLive ==
    /\ InitLive /\ [][NextLive]_vars
    /\ WF_vars(AnsweredStep)
    /\ []<>(pc # "resolve")

----------------------------------------------------------------------------
(* The state machine of the image-only variant *)

ImgJobs ==
    {[BaseJob EXCEPT !.raw = r] : r \in {"empty", "invalid", "null"}}
    \cup {[BaseJob EXCEPT !.apiKey = a, !.model = b, !.prompt = c] : a, b, c \in BOOLEAN}
    \cup {[BaseJob EXCEPT !.timeout_ms = tmo] : tmo \in {NotGiven, Given(0), Given(3000), Given(7500)}}

ImgResponses ==
    {NetErr, Http(FALSE, "500", NoPred)}
    \cup {Http(TRUE, "200", p) :
            p \in {Pred("processing", "", Null), Pred("failed", "OOM", Null),
                   Pred("canceled", "", Null), Pred("succeeded", "", OutNone),
                   Pred("succeeded", "", OutOne), Pred("succeeded", "", OutBadData)}}

InitImg ==
    /\ pc = "stdin"
    /\ job \in ImgJobs
    /\ disk = {}
    /\ Blank

ImgReadJob ==
    /\ pc = "stdin"
    /\ Commit(imgSettle(imgStart(View, job)))
    /\ UNCHANGED <<job, disk, now>>

ImgCreateResponse ==
    /\ pc = "create"
    /\ \E response \in ImgResponses : Commit(imgSettle(imgCreated(View, job, response, now)))
    /\ UNCHANGED <<job, disk, now>>

ImgDelayDone ==
    /\ pc = "delay"
    /\ Polls < MaxPollsImg
    /\ \E dt \in Dts : now + dt <= MaxNow /\ now' = now + dt
    /\ Commit(waitPoll(View))
    /\ UNCHANGED <<job, disk>>

ImgPollResponse ==
    /\ pc = "poll"
    /\ \E response \in ImgResponses : Commit(imgSettle(imgPolled(View, job, response, now)))
    /\ UNCHANGED <<job, disk, now>>

ImgDownloadDone ==
    /\ pc = "download"
    /\ \E outcome \in DownloadOutcomes : Commit(imgSettle(imgDownloaded(View, outcome)))
    /\ UNCHANGED <<job, disk, now>>

NextImg ==
    \/ ImgReadJob
    \/ ImgCreateResponse
    \/ ImgDelayDone
    \/ ImgPollResponse
    \/ ImgDownloadDone
    \/ ProcessExit

SpecImg == InitImg /\ [][NextImg]_vars

----------------------------------------------------------------------------
(* Properties *)

IsTerminal(r) == "code" \in DOMAIN r
IsFailure(r) == "description" \in DOMAIN r
IsSuccess(r) == "files" \in DOMAIN r
IsProgress(r) == "progress" \in DOMAIN r

Terminals == SelectSeq(out, IsTerminal)
ProgressRecords == SelectSeq(out, IsProgress)
Over == pc \in {"done", "exited"}
Requests(kind) == SelectSeq(reqs, LAMBDA r : r.kind = kind)

\* C1: in the multi-tool variant a run never holds two terminal records, and a
\* run that is over holds exactly one, whatever path ended it.
C1_ExactlyOneTerminal ==
    /\ Len(Terminals) <= 1
    /\ Over => Len(Terminals) = 1

\* an exception that fail() did not raise ended the run, reported once
C1_Witness ==
    /\ pc = "exited"
    /\ Len(Terminals) = 1
    /\ IsFailure(Terminals[1]) /\ Terminals[1].code = "exception"
    /\ Len(out) >= 4

\* C2: in the image-only variant a run never holds more than one terminal record.
C2_ImgAtMostOneTerminal == Len(Terminals) <= 1

\* C3: in the multi-tool variant nothing follows the terminal record: in every
\* state it is the last record of the output.
C3_TerminalIsLast ==
    \A i \in 1..Len(out) : IsTerminal(out[i]) => i = Len(out)

\* a run that wrote progress records, then its terminal record, and ended
C3_Witness ==
    /\ pc = "exited"
    /\ Len(out) >= 4
    /\ IsTerminal(out[Len(out)])
    /\ Len(Requests("poll")) >= 1

TimeoutSeen ==
    /\ obs.seen
    /\ obs.status \in {"starting", "processing"}
    /\ obs.elapsed > timeoutMs(job)

\* C4: once a poll-loop iteration finds the elapsed time above the configured
\* timeout with a non-terminal status, the run is over with the failure kind
\* timeout, and no request was issued after that iteration began.
C4_TimeoutEndsRun ==
    TimeoutSeen =>
        /\ Over
        /\ out # <<>> /\ IsFailure(out[Len(out)]) /\ out[Len(out)].code = "timeout"
        /\ Len(Terminals) = 1
        /\ Len(reqs) = obs.nreqs

C4_Witness == TimeoutSeen /\ pc = "exited" /\ Len(Requests("poll")) >= 2

FailedSeen == obs.seen /\ obs.status = "failed" /\ obs.error # ""

\* C5: once a prediction state has status failed with an error text E, the run
\* is over with exactly one terminal record, of kind replicate_failed and with
\* E in its description; there is no success record and no download.
C5_RemoteFailure ==
    FailedSeen =>
        /\ Over
        /\ Len(Terminals) = 1
        /\ IsFailure(Terminals[1])
        /\ Terminals[1].code = "replicate_failed"
        /\ obs.error \in Range(Terminals[1].description)
        /\ Requests("download") = <<>>
        /\ files = <<>>

C5_Witness == FailedSeen /\ pc = "exited" /\ Len(Requests("poll")) >= 1

\* C6: the progress values of a run, in the order written, never decrease.
C6_ProgressMonotone ==
    \A i, k \in 1..Len(ProgressRecords) :
        i < k => ProgressRecords[i].progress <= ProgressRecords[k].progress

\* a run that wrote 0.05, 0.1, estimates of the poll loop and 0.9
C6_Witness ==
    /\ Len(ProgressRecords) >= 5
    /\ ProgressRecords[Len(ProgressRecords)].progress = 900
    /\ \E i \in 1..Len(ProgressRecords) :
          ProgressRecords[i].progress > 100 /\ ProgressRecords[i].progress < 900

\* C7: every progress record differs by at least 0.05 from the one before it.
C7_ProgressBand ==
    \A i \in 2..Len(ProgressRecords) :
        ProgressRecords[i].progress - ProgressRecords[i - 1].progress >= 50


UploadsOf(f) == Len(SelectSeq(reqs, LAMBDA r : r.kind = "upload" /\ r.file = f))

RECURSIVE UrlLeaves(_)
\* the uploaded-file URLs a value holds
UrlLeaves(value) ==
    IF value.t = "url" THEN {value.v}
    ELSE IF value.t = "list" THEN UNION {UrlLeaves(value.v[i]) : i \in 1..Len(value.v)}
    ELSE IF value.t = "obj" THEN UNION {UrlLeaves(value.v[i].x) : i \in 1..Len(value.v)}
    ELSE {}

RECURSIVE UrlCount(_), UrlCountIn(_, _)
\* the number of places of a value that hold an uploaded-file URL
UrlCount(value) ==
    IF value.t = "url" THEN 1
    ELSE IF value.t = "list" THEN UrlCountIn(value.v, 1)
    ELSE IF value.t = "obj" THEN UrlCountIn([i \in 1..Len(value.v) |-> value.v[i].x], 1)
    ELSE 0
UrlCountIn(items, i) ==
    IF i > Len(items) THEN 0 ELSE UrlCount(items[i]) + UrlCountIn(items, i + 1)

\* C8: a job input file (by filename, the key of the cache) is uploaded at most
\* once in a run, and every reference to it carries the URL of that upload.
C8_UploadOnce ==
    /\ \A i \in 1..Len(Requests("upload")) : UploadsOf(Requests("upload")[i].file) <= 1
    /\ \A u \in UrlLeaves(resolvedInput) :
          /\ u.id \in 1..Len(Requests("upload"))
          /\ Requests("upload")[u.id].file = u.file

\* an input whose placeholders overlap: more references than uploads
C8_Witness ==
    /\ pc = "create"
    /\ Len(Requests("upload")) >= 2
    /\ UrlCount(resolvedInput) > Len(Requests("upload"))

IsPlaceholder(value) ==
    value.t = "str" /\ trim(value.v) # <<>> /\ Head(trim(value.v)) = "files:"

PatternOf(value) == trim(Tail(trim(value.v)))

HasWildcard(pattern) == Range(pattern) \cap {"*", "?", "["} # {}

\* whether the pattern selects the file d of the working directory
Selects(pattern, d) ==
    \/ GlobPath(SplitPath(normalizePath(pattern), <<>>, <<>>), SplitPath(d, <<>>, <<>>))
    \/ /\ "/" \notin Range(normalizePath(pattern))
       /\ GlobPath(<<(<<"*", "*">>)>> \o SplitPath(normalizePath(pattern), <<>>, <<>>),
                   SplitPath(d, <<>>, <<>>))

\* the job input files a pattern matches
Candidates(pattern) ==
    {i \in 1..Len(job.files) :
        /\ job.files[i].filename # <<>>
        /\ pattern # <<>>
        /\ \E d \in disk : /\ normalizePath(d) = normalizePath(job.files[i].filename)
                           /\ Selects(pattern, d)}

\* C9: a placeholder without a wildcard character that matches exactly one job
\* input file resolves to a single URL; one with a wildcard character that
\* matches at least one resolves to a list, one URL per match.
C9_SingleOrList ==
    pc = "create" =>
        \A i \in 1..Len(input.v) :
            IsPlaceholder(input.v[i].x) =>
                LET pattern == PatternOf(input.v[i].x)
                    n == Cardinality(Candidates(pattern))
                    r == resolvedInput.v[i].x
                IN  /\ (~HasWildcard(pattern) /\ n = 1) => r.t = "url"
                    /\ (HasWildcard(pattern) /\ n >= 1) => (r.t = "list" /\ Len(r.v) = n)

\* a wildcard pattern with exactly one match, resolved to a list of one URL
C9_Witness ==
    /\ pc = "create"
    /\ \E i \in 1..Len(input.v) :
          /\ IsPlaceholder(input.v[i].x)
          /\ HasWildcard(PatternOf(input.v[i].x))
          /\ Cardinality(Candidates(PatternOf(input.v[i].x))) = 1
          /\ resolvedInput.v[i].x.t = "list"
          /\ Len(resolvedInput.v[i].x.v) = 1

RECURSIVE PlaceholdersIn(_)
\* the patterns of the placeholders a value holds
PlaceholdersIn(value) ==
    IF IsPlaceholder(value) THEN {PatternOf(value)}
    ELSE IF value.t = "list" THEN UNION {PlaceholdersIn(value.v[i]) : i \in 1..Len(value.v)}
    ELSE IF value.t = "obj" THEN UNION {PlaceholdersIn(value.v[i].x) : i \in 1..Len(value.v)}
    ELSE {}

NoneMatches == \A q \in PlaceholdersIn(input) : Candidates(q) = {}

\* C10: a placeholder that matches no job input file resolves to the empty
\* list; when no placeholder of the input matches, the resolver returns with no
\* failure record written and no upload request issued.
C10_NoMatchIsEmpty ==
    /\ pc = "create" =>
          \A i \in 1..Len(input.v) :
              (IsPlaceholder(input.v[i].x) /\ Candidates(PatternOf(input.v[i].x)) = {})
                  => resolvedInput.v[i].x = List(<<>>)
    /\ (pc # "resolve" /\ NoneMatches) =>
          /\ pc = "create"
          /\ Terminals = <<>>
          /\ Requests("upload") = <<>>

\* a pattern that selects a file of the working directory that is no job input
C10_Witness ==
    /\ pc = "create"
    /\ NoneMatches
    /\ \E i \in 1..Len(input.v) :
          /\ IsPlaceholder(input.v[i].x)
          /\ \E d \in disk : Selects(PatternOf(input.v[i].x), d)
          /\ resolvedInput.v[i].x = List(<<>>)


\* the value an object holds under key k: Null when it has no such key
ValueOf(object, k) ==
    IF \E i \in 1..Len(object.v) : object.v[i].k = k
    THEN object.v[CHOOSE i \in 1..Len(object.v) : object.v[i].k = k].x
    ELSE Null

HasKey(object, k) == \E i \in 1..Len(object.v) : object.v[i].k = k

\* the explicit parameter k is given a valid value (a number; a whole number
\* where the field is an integer) that the custom JSON contradicts
Conflict(k) ==
    /\ Typed(job, k).finite
    /\ k # "duration" => Typed(job, k).n % 2 = 0
    /\ HasKey(job.args.value, k)
    /\ ValueOf(job.args.value, k) # Num(Typed(job, k).n)

\* C11: in every tool mode, an explicit parameter (prompt, width, height,
\* num_outputs, seed, duration) given a valid value that the custom JSON
\* contradicts is the value of its key in the built input.
C11_ExplicitOverrides ==
    (pc = "resolve" /\ job.args.kind = "object") =>
        /\ HasKey(job.args.value, "prompt") => ValueOf(input, "prompt") = Str(<<"p">>)
        /\ \A k \in TypedKeys : Conflict(k) => ValueOf(input, k) = Num(Typed(job, k).n)

\* the parameters the tool mode reads
OwnKeys(tool) ==
    IF tool = "image" THEN {"width", "height", "num_outputs", "seed"} ELSE {"duration", "seed"}

\* C11 (amended): in every tool mode, an explicit parameter that the mode reads
\* (prompt and seed; width, height, num_outputs for image; duration for video
\* and audio), given a valid value that the custom JSON contradicts, is the
\* value of its key in the built input, whatever the key order.
C11_OwnModeOverrides ==
    (pc = "resolve" /\ job.args.kind = "object") =>
        /\ HasKey(job.args.value, "prompt") => ValueOf(input, "prompt") = Str(<<"p">>)
        /\ \A k \in OwnKeys(job.tool) : Conflict(k) => ValueOf(input, k) = Num(Typed(job, k).n)

\* a conflicting key that is not the last of the custom JSON is overridden
C11_Witness ==
    /\ pc = "resolve"
    /\ job.args.kind = "object"
    /\ \E k \in OwnKeys(job.tool) :
          /\ Conflict(k)
          /\ job.args.value.v[Len(job.args.value.v)].k # k
          /\ ValueOf(input, k) = Num(Typed(job, k).n)

RECURSIVE Strings(_), StringsIn(_, _)
\* the strings a JSON value holds, in the order a depth-first walk meets them
Strings(value) ==
    IF value.t = "str" THEN <<value.v>>
    ELSE IF value.t = "list" THEN StringsIn(value.v, 1)
    ELSE IF value.t = "obj" THEN StringsIn([i \in 1..Len(value.v) |-> value.v[i].x], 1)
    ELSE <<>>
StringsIn(items, i) ==
    IF i > Len(items) THEN <<>> ELSE Strings(items[i]) \o StringsIn(items, i + 1)

UrlShaped(s) ==
    trim(s) # <<>> /\ Head(trim(s)) \in {"https://", "http://", "HTTPS://", "data:", "DATA:"}

\* the URL-shaped strings of the prediction's output, trimmed, in traversal order
ExpectedUrls ==
    LET found == SelectSeq(Strings(current.output), UrlShaped)
    IN  [i \in 1..Len(found) |-> trim(found[i])]

SucceededSeen == obs.seen /\ obs.status = "succeeded"

\* the URLs among the first k that are fetched, not decoded in memory
FetchedOf(k) == SelectSeq(SubSeq(ExpectedUrls, 1, k), LAMBDA u : Head(u) # "data:")

\* C12: once a prediction succeeded with n >= 1 URL-shaped strings in its
\* output, the downloads follow the traversal order, the i-th file written is
\* named replicate-<prediction id>-<i>.<ext>, and the success record is written
\* after exactly n downloads, with the n names in that order.
C12_DownloadsInOrder ==
    (SucceededSeen /\ Len(ExpectedUrls) >= 1) =>
        /\ Len(files) <= Len(ExpectedUrls)
        /\ \A i \in 1..Len(files) : files[i].prefix = current.id /\ files[i].n = i
        /\ \E k \in {Len(files), Min(Len(files) + 1, Len(ExpectedUrls))} :
              [i \in 1..Len(Requests("download")) |-> Requests("download")[i].url] = FetchedOf(k)
        /\ \A i \in 1..Len(out) :
              IsSuccess(out[i]) => (out[i].files = files /\ Len(files) = Len(ExpectedUrls))

\* a nested output with two URLs, both downloaded
C12_Witness ==
    /\ SucceededSeen
    /\ current.output = OutNested
    /\ Len(files) = 2
    /\ Terminals # <<>> /\ IsSuccess(Terminals[1])

\* the progress records of value 0.9
Nines == SelectSeq(out, LAMBDA r : IsProgress(r) /\ r.progress = 900)

\* C13: once a prediction is seen to have succeeded with no URL-shaped string
\* in its output, the run is over with the failure kind output; there is no
\* success record and no download, and main's 0.9 progress record is not
\* written (the only 0.9 on the output is one the poll loop wrote before).
C13_NoOutputFails ==
    (SucceededSeen /\ ExpectedUrls = <<>>) =>
        /\ Over
        /\ Len(Terminals) = 1
        /\ IsFailure(Terminals[1]) /\ Terminals[1].code = "output"
        /\ Requests("download") = <<>>
        /\ Len(Nines) = IF lastProgress = 900 THEN 1 ELSE 0

\* the failure of kind output after a poll loop that had reached 0.9
C13_Witness ==
    /\ SucceededSeen
    /\ current.output = OutNoUrl
    /\ lastProgress = 900
    /\ IsFailure(out[Len(out)]) /\ out[Len(out)].code = "output"

\* the pipeline stage of an upstream request
Stage(r) ==
    CASE r.kind = "upload" -> 1
      [] r.kind = "create" -> 2
      [] r.kind = "poll" -> 3
      [] r.kind = "download" -> 4

\* C14: the upstream requests of a run are ordered by stage (uploads, the one
\* create request, polls, downloads) and no stage is re-entered; every download
\* request is issued after status succeeded was observed, and the success
\* record is written only when every download has completed.
C14_StageOrder ==
    /\ \A i, k \in 1..Len(reqs) : i < k => Stage(reqs[i]) <= Stage(reqs[k])
    /\ Len(Requests("create")) <= 1
    /\ \A i \in 1..Len(reqs) :
          reqs[i].kind = "download" => (SucceededSeen /\ obs.nreqs < i)
    /\ \A i \in 1..Len(out) :
          IsSuccess(out[i]) =>
              /\ SucceededSeen
              /\ Len(files) = Len(ExpectedUrls)
              /\ Len(Requests("download")) = Len(FetchedOf(Len(ExpectedUrls)))
              /\ pc \in {"done", "exited"}

\* a run that went through every stage: upload, create, poll, download, success
C14_Witness ==
    /\ \A kind \in {"upload", "create", "poll", "download"} : Requests(kind) # <<>>
    /\ Terminals # <<>> /\ IsSuccess(Terminals[1])

\* C15: a failed upstream call (network error or HTTP status that is not OK) or
\* a failed read of an input file ends the run with one terminal failure record
\* and is the last thing the run does upstream: no request follows it, none is
\* retried, and after a failure while uploading no create request exists.
C15_FailFast ==
    faults # <<>> =>
        /\ Len(faults) = 1
        /\ Over
        /\ Len(Terminals) = 1 /\ IsFailure(Terminals[1])
        /\ Len(reqs) = faults[1]
        /\ (reqs = <<>> \/ reqs[Len(reqs)].kind = "upload") => Requests("create") = <<>>

\* the second upload of a run failed: the create request was never issued
C15_Witness ==
    /\ faults = <<2>>
    /\ Len(Requests("upload")) = 2
    /\ Requests("create") = <<>>
    /\ Over

IsException(r) == IsFailure(r) /\ r.code = "exception"

\* C16: an exception that fail() did not raise is reported by one record of kind
\* exception, written right where it was raised, if and only if no terminal
\* record was on the output then; with one on the output it adds no record.
C16_ExceptionReported ==
    /\ Len(raised) <= 1
    /\ \A i \in 1..Len(out) : IsException(out[i]) => (raised # <<>> /\ i = raised[1] + 1)
    /\ raised # <<>> =>
          IF \E i \in 1..raised[1] : IsTerminal(out[i])
          THEN Len(out) = raised[1]
          ELSE Len(out) = raised[1] + 1 /\ IsException(out[Len(out)])

\* a write of a downloaded file raised, after the progress records
C16_Witness ==
    /\ raised # <<>> /\ raised[1] >= 3
    /\ Requests("download") # <<>>
    /\ IsException(out[Len(out)])

StatusMissing == obs.seen /\ obs.status = ""

\* C17: once a prediction state without a status is seen, from the create call
\* or from a poll, the run is over with the failure kind replicate, and no
\* request was issued after that state was seen.
C17_MissingStatusFatal ==
    StatusMissing =>
        /\ Over
        /\ Len(Terminals) = 1
        /\ IsFailure(Terminals[1]) /\ Terminals[1].code = "replicate"
        /\ Len(reqs) = obs.nreqs

\* the second poll answered with a prediction state that has no status
C17_Witness ==
    /\ StatusMissing
    /\ Len(Requests("poll")) = 2
    /\ pc = "exited"

\* C18: no fetch is issued for an output entry that collectUrls accepts as a
\* data URL (data: in any letter case): such an entry is decoded in memory.
C18_DataUrlNotFetched ==
    \A i \in 1..Len(reqs) :
        reqs[i].kind = "download" => Head(reqs[i].url) \notin {"data:", "DATA:"}

BadCustomJson ==
    /\ job.raw = "ok" /\ job.apiKey /\ job.model /\ job.prompt
    /\ job.args.kind = "badtext"

\* C19: a run whose custom JSON is text that is not JSON (the job being valid
\* otherwise) ends with the failure kind params as its only record: no
\* progress record precedes it and no upstream request is issued.
C19_BadCustomJson ==
    (BadCustomJson /\ pc # "stdin") =>
        /\ Over
        /\ Len(out) = 1
        /\ IsFailure(out[1]) /\ out[1].code = "params"
        /\ reqs = <<>>

\* the run of a video job with malformed custom JSON, ended
C19_Witness ==
    /\ BadCustomJson
    /\ job.tool = "video"
    /\ pc = "exited"
    /\ Len(out) = 1

\* C20: every progress value the poll loop writes is below 0.9.
C20_BelowNine == lastProgress < 900

\* the results of the top-level placeholders without a wildcard character,
\* each with the number of job input files its pattern matches
LiteralResults ==
    {[n |-> Cardinality(Candidates(PatternOf(input.v[i].x))), r |-> resolvedInput.v[i].x] :
        i \in {k \in 1..Len(input.v) :
                  IsPlaceholder(input.v[k].x) /\ ~HasWildcard(PatternOf(input.v[k].x))}}

\* C21: a placeholder without a wildcard character that matches at least one
\* job input file resolves to a single URL, however many files match.
C21_LiteralAlwaysSingle ==
    pc = "create" => \A e \in LiteralResults : e.n >= 1 => e.r.t = "url"

\* C21 (amended): a placeholder without a wildcard character resolves to a
\* single URL when it matches exactly one job input file, and to the list of
\* the URLs of all its matches when it matches several.
C21_LiteralByCount ==
    pc = "create" =>
        \A e \in LiteralResults :
            /\ e.n = 1 => e.r.t = "url"
            /\ e.n >= 2 => /\ e.r.t = "list"
                           /\ Len(e.r.v) = e.n
                           /\ \A k \in 1..e.n : e.r.v[k].t = "url"

\* a bare file name that matches a top-level file and a nested one
C21_Witness ==
    /\ pc = "create"
    /\ job.files = <<[filename |-> Fa], [filename |-> Fda]>>
    /\ \E e \in LiteralResults :
          /\ e.n = 2
          /\ e.r.t = "list"
          /\ {e.r.v[k].v.file : k \in 1..2} = {Fa, Fda}

RECURSIVE HasFilesString(_)
\* whether a value holds a string that begins with files:, blanks before it aside
HasFilesString(value) ==
    IF value.t = "str" THEN trim(value.v) # <<>> /\ Head(trim(value.v)) = "files:"
    ELSE IF value.t = "list" THEN \E i \in 1..Len(value.v) : HasFilesString(value.v[i])
    ELSE IF value.t = "obj" THEN \E i \in 1..Len(value.v) : HasFilesString(value.v[i].x)
    ELSE FALSE

\* C22: an input in which no string begins with files: comes out of the File
\* Resolver structurally equal to what went in, and no upload is issued.
C22_ResolverIdentity ==
    (pc = "create" /\ ~HasFilesString(input)) =>
        /\ resolvedInput = input
        /\ Requests("upload") = <<>>

\* C23: a prediction state seen with status succeeded ends the poll loop at that
\* iteration, whatever the elapsed time: there is never a timeout failure, no
\* poll request follows (none at all when the create call returned it), and the
\* run that completes its downloads ends with the success record.
C23_SucceededFirst ==
    SucceededSeen =>
        /\ \A i \in 1..Len(out) : IsFailure(out[i]) => out[i].code # "timeout"
        /\ \A i \in 1..Len(reqs) : reqs[i].kind = "poll" => i <= obs.nreqs
        /\ reqs[obs.nreqs].kind = "create" => Requests("poll") = <<>>
        /\ (Over /\ ExpectedUrls # <<>> /\ Len(files) = Len(ExpectedUrls))
              => IsSuccess(Terminals[1])

\* succeeded was seen by a poll after the timeout had passed: the run succeeded
C23_Witness ==
    /\ SucceededSeen
    /\ obs.elapsed > obs.timeoutMs
    /\ Requests("poll") # <<>>
    /\ Terminals # <<>> /\ IsSuccess(Terminals[1])

CanceledSeen == obs.seen /\ obs.status = "canceled"

\* C24: once a prediction state has status canceled, the run is over with the
\* failure kind replicate_canceled, and the description of that record holds
\* the error text of the remote state when it has one.
C24_CanceledCarriesError ==
    CanceledSeen =>
        /\ Over
        /\ Len(Terminals) = 1
        /\ IsFailure(Terminals[1]) /\ Terminals[1].code = "replicate_canceled"
        /\ obs.error # "" => obs.error \in Range(Terminals[1].description)

\* C25: every run, its calls answered and its clock advancing, writes its
\* terminal record and ends.
C25_Terminates == <>(Over /\ Len(Terminals) = 1)

\* a prediction that stayed starting or processing, ended by the timeout after three polls
C25_Witness ==
    /\ TimeoutSeen
    /\ Len(Requests("poll")) = 3
    /\ pc = "exited"
    /\ IsFailure(Terminals[1]) /\ Terminals[1].code = "timeout"


\* a failure record written by fail() inside the poll loop of the image-only variant
LoopFailure(r) ==
    /\ IsFailure(r)
    /\ \/ r.code \in {"replicate_failed", "replicate_canceled", "timeout"}
       \/ /\ r.code = "replicate"
          /\ r.description = <<"Unexpected response while polling prediction status.">>

\* C26: in the image-only variant, once the poll loop has written a failure
\* record (failed, canceled, missing status or timeout), no progress record
\* follows it on the output and no poll request is pending.
C26_ImgLoopStopsAfterFail ==
    \A i \in 1..Len(out) :
        LoopFailure(out[i]) =>
            /\ \A k \in (i + 1)..Len(out) : ~IsProgress(out[k])
            /\ pc # "poll"

====
